---- MODULE Spec2Model ----
(***************************************************************************)
(* GANTrainer of src/train.py: the per-batch adversarial step protocol,    *)
(* the epoch loop, the metrics CSV file, the checkpoints and the step-     *)
(* decay learning-rate schedulers.                                         *)
(*                                                                         *)
(* Losses and metric values are Python floats.  A float is modelled as a   *)
(* record: a non-negative rational num/den, +infinity, or NaN.             *)
(* Model weights are version counters per parameter group (one optimizer   *)
(* step that finds a gradient makes a new version); a gradient buffer is   *)
(* the sequence of backward passes accumulated since the last zero_grad.   *)
(***************************************************************************)
EXTENDS Integers, Sequences, FiniteSets, TLC

\* ---------------------------------------------------------------- bounds
NumEpochs == 2
NumTrainBatches == 2
NumValBatches == 2
LrDecayStep == 2

\* ---------------------------------------------------------------- floats
Fin(n) == [kind |-> "finite", num |-> n, den |-> 1]
Inf == [kind |-> "inf", num |-> 0, den |-> 1]
NaN == [kind |-> "nan", num |-> 0, den |-> 1]
Empty == [kind |-> "empty", num |-> 0, den |-> 1]

\* a + b on floats (total += loss, d_real_loss + d_fake_loss)
FAdd(a, b) ==
    IF a.kind = "nan" \/ b.kind = "nan" THEN NaN
    ELSE IF a.kind = "inf" \/ b.kind = "inf" THEN Inf
    ELSE [kind |-> "finite", num |-> a.num * b.den + b.num * a.den,
          den |-> a.den * b.den]

\* a / n for a positive integer n (total / len(loader), metric / pbar.n)
FDiv(a, n) ==
    IF a.kind = "finite" THEN [a EXCEPT !.den = a.den * n] ELSE a

\* a < b on floats: false when either side is NaN
FLess(a, b) ==
    /\ a.kind = "finite"
    /\ \/ b.kind = "inf"
       \/ b.kind = "finite" /\ a.num * b.den < b.num * a.den

\* utils.check_loss_nan: true exactly for a NaN loss
check_loss_nan(loss) == loss.kind = "nan"

\* ---------------------------------------------------------------- inputs
\* what a loss function can return for one batch
LossValues == {Fin(1), NaN}
ValLossValues == {Fin(1), Fin(2), Inf, NaN}

MetricKeys == {"mean_iou", "recall", "precision", "accuracy", "dice", "f2"}

\* what SegmentationMetrics.compute() can return for one batch
MetricValues == {[k \in MetricKeys |-> Fin(1)]}

ZeroMetrics == [k \in MetricKeys |-> Fin(0)]

\* ------------------------------------------------------- autograd, optim
ParamGroups == {"generator", "discriminator"}

\* the parameters each Adam optimizer was constructed over
optimizer_G == {"generator"}
optimizer_D == {"discriminator"}

\* optimizer.zero_grad(): clears the gradients of the optimizer's parameters
ZeroGrad(opt, grads) ==
    [p \in ParamGroups |-> IF p \in opt THEN <<>> ELSE grads[p]]

\* loss.backward(): accumulates into every parameter the loss's graph reaches
Backward(graph, tag, grads) ==
    [p \in ParamGroups |-> IF p \in graph THEN Append(grads[p], tag) ELSE grads[p]]

\* optimizer.step(): updates the optimizer's parameters that have a gradient
OptimizerStep(opt, grads, w) ==
    [p \in ParamGroups |-> IF p \in opt /\ grads[p] # <<>> THEN w[p] + 1 ELSE w[p]]

\* the tensor left attached to its graph
Detach_Attached(t) == t

\* tensor.detach(): same values, cut from the computation graph
Detach(t) == [t EXCEPT !.graph = {}]

NoTensor == [graph |-> {}, epoch |-> 0, batch |-> 0, gen |-> 0]


\* ------------------------------------------------------------ tqdm (pbar)
\* tqdm.update(k): n grows by k; the bar is redrawn (and last_print_n moved)
\* only when enough time has passed, which the caller cannot predict
Tqdm_update(bar, k, redraw) ==
    [n |-> bar.n + k,
     last_print_n |-> IF redraw THEN bar.n + k ELSE bar.last_print_n]

\* tqdm.__iter__ resuming after one item: its private count grows by one and,
\* when it is due (n - last_print_n has reached miniters, a non-negative
\* number tqdm adapts as it runs, and mininterval has passed), it calls
\* update(n - last_print_n) on the bar and reads back the bar's last_print_n
Tqdm_iter(bar, it, due, redraw) ==
    LET n == it.n + 1
        fire == due /\ n - it.last_print_n >= 0
        nb == IF fire THEN Tqdm_update(bar, n - it.last_print_n, redraw) ELSE bar
    IN  [bar |-> nb,
         it |-> [n |-> n,
                 last_print_n |-> IF fire THEN nb.last_print_n ELSE it.last_print_n]]

NewBar == [n |-> 0, last_print_n |-> 0]

\* ------------------------------------------------------------ CSV file
csv_fields ==
    << "epoch", "train_g_loss", "train_d_loss", "val_loss",
       "mean_iou", "recall", "precision", "accuracy", "dice", "f2",
       "train_mean_iou", "train_precision", "train_recall", "train_f2",
       "train_accuracy", "train_dice" >>

\* the dict without its train_f2 entry
CsvMetrics_NoTrainF2(ep, train_g_loss, train_d_loss, val_loss, logs, train_logs) ==
    [c \in {"epoch", "train_g_loss", "train_d_loss", "val_loss",
            "train_mean_iou", "train_recall", "train_precision",
            "train_accuracy", "train_dice",
            "mean_iou", "recall", "precision", "accuracy", "dice", "f2"} |->
        CASE c = "epoch" -> Fin(ep)
          [] c = "train_g_loss" -> train_g_loss
          [] c = "train_d_loss" -> train_d_loss
          [] c = "val_loss" -> val_loss
          [] c = "train_mean_iou" -> train_logs["mean_iou"]
          [] c = "train_recall" -> train_logs["recall"]
          [] c = "train_precision" -> train_logs["precision"]
          [] c = "train_accuracy" -> train_logs["accuracy"]
          [] c = "train_dice" -> train_logs["dice"]
          [] OTHER -> logs[c]]

\* the dict _log_to_csv builds for one epoch
CsvMetrics(ep, train_g_loss, train_d_loss, val_loss, logs, train_logs) ==
    [c \in {"epoch", "train_g_loss", "train_d_loss", "val_loss",
            "train_mean_iou", "train_recall", "train_precision",
            "train_accuracy", "train_dice", "train_f2",
            "mean_iou", "recall", "precision", "accuracy", "dice", "f2"} |->
        CASE c = "epoch" -> Fin(ep)
          [] c = "train_g_loss" -> train_g_loss
          [] c = "train_d_loss" -> train_d_loss
          [] c = "val_loss" -> val_loss
          [] c = "train_mean_iou" -> train_logs["mean_iou"]
          [] c = "train_recall" -> train_logs["recall"]
          [] c = "train_precision" -> train_logs["precision"]
          [] c = "train_accuracy" -> train_logs["accuracy"]
          [] c = "train_dice" -> train_logs["dice"]
          [] c = "train_f2" -> train_logs["f2"]
          [] OTHER -> logs[c]]

\* csv.DictWriter(f, fieldnames).writerow(d): one cell per field, in field
\* order; a field missing from d is written empty
DictWriterRow(fieldnames, d) ==
    [j \in 1..Len(fieldnames) |->
        IF fieldnames[j] \in DOMAIN d THEN d[fieldnames[j]] ELSE Empty]

\* the file rewritten on every call: the header, then the new row alone
Log_to_csv_Rewriting(file, ep, train_g_loss, train_d_loss, val_loss, logs, train_logs) ==
    << csv_fields, DictWriterRow(csv_fields,
        CsvMetrics(ep, train_g_loss, train_d_loss, val_loss, logs, train_logs)) >>

\* _log_to_csv: the file after the call (opened in append mode)
Log_to_csv(file, ep, train_g_loss, train_d_loss, val_loss, logs, train_logs) ==
    Append(file, DictWriterRow(csv_fields,
        CsvMetrics(ep, train_g_loss, train_d_loss, val_loss, logs, train_logs)))

\* ------------------------------------------------------------ training steps
\* the optimizer stepped before the loss is inspected
Train_generator_StepFirst(ep, b, loss, w, grads) ==
    LET zg == ZeroGrad(optimizer_G, grads)
        fake_masks == [graph |-> {"generator"}, epoch |-> ep, batch |-> b,
                       gen |-> w["generator"]]
        bw == Backward(fake_masks.graph, "g_seg_loss", zg)
    IN  [raised |-> check_loss_nan(loss), w |-> OptimizerStep(optimizer_G, bw, w),
         grads |-> bw, loss |-> loss, fake_masks |-> fake_masks]

\* the discriminator's optimizer stepped in place of the generator's
Train_generator_WrongOptimizer(ep, b, loss, w, grads) ==
    LET zg == ZeroGrad(optimizer_G, grads)
        fake_masks == [graph |-> {"generator"}, epoch |-> ep, batch |-> b,
                       gen |-> w["generator"]]
        bw == Backward(fake_masks.graph, "g_seg_loss", zg)
    IN  IF check_loss_nan(loss)
        THEN [raised |-> TRUE, w |-> w, grads |-> zg,
              loss |-> loss, fake_masks |-> fake_masks]
        ELSE [raised |-> FALSE, w |-> OptimizerStep(optimizer_D, bw, w),
              grads |-> bw, loss |-> loss, fake_masks |-> fake_masks]

\* train_generator(data, targets) on the batch (ep, b) whose loss is `loss`
Train_generator(ep, b, loss, w, grads) ==
    LET zg == ZeroGrad(optimizer_G, grads)
        fake_masks == [graph |-> {"generator"}, epoch |-> ep, batch |-> b,
                       gen |-> w["generator"]]
        bw == Backward(fake_masks.graph, "g_seg_loss", zg)
    IN  IF check_loss_nan(loss)
        THEN [raised |-> TRUE, w |-> w, grads |-> zg,
              loss |-> loss, fake_masks |-> fake_masks]
        ELSE [raised |-> FALSE, w |-> OptimizerStep(optimizer_G, bw, w),
              grads |-> bw, loss |-> loss, fake_masks |-> fake_masks]

\* train_discriminator(data, mask_fakes, targets); the two BCE losses are
\* d_real_loss and d_fake_loss
Train_discriminator(mask_fakes, d_real_loss, d_fake_loss, w, grads) ==
    LET zg == ZeroGrad(optimizer_D, grads)
        mf == Detach(mask_fakes)
        real_graph == {"discriminator"}
        fake_graph == {"discriminator"} \cup mf.graph
        bw == Backward(real_graph \cup fake_graph, "d_loss", zg)
    IN  IF check_loss_nan(d_real_loss) \/ check_loss_nan(d_fake_loss)
        THEN [raised |-> TRUE, w |-> w, grads |-> zg, loss |-> NaN, scored |-> mf]
        ELSE [raised |-> FALSE, w |-> OptimizerStep(optimizer_D, bw, w),
              grads |-> bw, loss |-> FAdd(d_real_loss, d_fake_loss),
              scored |-> mf]

\* metrics[key] += metric[key] for every key
Accumulate(acc, metric) ==
    [k \in MetricKeys |-> FAdd(acc[k], metric[k])]

\* {key: metrics[key] / n}
Averages(acc, n) ==
    [k \in MetricKeys |-> FDiv(acc[k], n)]

\* ------------------------------------------------------------ model selection
\* a non-strict comparison, `val_loss <= self.best_val_loss`
IsBest_NonStrict(val_loss, best) == FLess(val_loss, best) \/ val_loss = best

\* the comparison turned round, `val_loss > self.best_val_loss`
IsBest_Reversed(val_loss, best) == FLess(best, val_loss)

\* train(): `val_loss < self.best_val_loss`
IsBest(val_loss, best) == FLess(val_loss, best)

NoFile == [p \in ParamGroups |-> -1]

\* last_model written only when the epoch is not the best one
Save_model_LastUnlessBest(files, log, ep, w, is_best) ==
    IF is_best
    THEN [files |-> [files EXCEPT !["best_gan_model"] = w],
          log |-> Append(log, [file |-> "best_gan_model", epoch |-> ep])]
    ELSE [files |-> [files EXCEPT !["last_model"] = w],
          log |-> Append(log, [file |-> "last_model", epoch |-> ep])]

\* save_model(is_best): the checkpoint files and the order of the writes
Save_model(files, log, ep, w, is_best) ==
    LET f1 == [files EXCEPT !["last_model"] = w]
        l1 == Append(log, [file |-> "last_model", epoch |-> ep])
    IN  IF is_best
        THEN [files |-> [f1 EXCEPT !["best_gan_model"] = w],
              log |-> Append(l1, [file |-> "best_gan_model", epoch |-> ep])]
        ELSE [files |-> f1, log |-> l1]

\* a scheduler that decays on every step
StepLR_step_EveryEpoch(sched) ==
    [last_epoch |-> sched.last_epoch + 1, decays |-> sched.decays + 1]

\* StepLR.step(): one more epoch; the rate is multiplied by gamma whenever
\* the epoch count reaches a multiple of step_size
StepLR_step(sched) ==
    LET e == sched.last_epoch + 1
    IN  [last_epoch |-> e,
         decays |-> IF e % LrDecayStep = 0 THEN sched.decays + 1 ELSE sched.decays]


\* a validation batch whose NaN loss is not acted on
Validate_batch_NoRaise(loss, w, grads) ==
    [raised |-> FALSE, w |-> w, grads |-> grads, loss |-> loss]

\* a validation batch that back-propagates and steps the generator optimizer
Validate_batch_Training(loss, w, grads) ==
    LET bw == Backward({"generator"}, "combined_loss", ZeroGrad(optimizer_G, grads))
    IN  [raised |-> check_loss_nan(loss), w |-> OptimizerStep(optimizer_G, bw, w),
         grads |-> bw, loss |-> loss]

\* validate(), one batch, under torch.no_grad(): the forward pass and the loss
\* only; nothing is back-propagated and no optimizer is stepped
Validate_batch(loss, w, grads) ==
    [raised |-> check_loss_nan(loss), w |-> w, grads |-> grads, loss |-> loss]

\* ------------------------------------------------------------ state
VARIABLES
    pc,              \* where train() is
    epoch,           \* the loop variable of train(): epochs completed
    batch,           \* batches finished in the current pass
    mode,            \* model.train() / model.eval()
    weights,         \* version of each parameter group
    grads,           \* .grad of each parameter group
    fake_mask,       \* the fake mask train_generator returned
    g_loss,          \* the loss train_generator returned
    total_g_loss, total_d_loss, total_val_loss,
    metrics,         \* the running metric sums of the current pass
    logs,            \* the local `logs` of the current pass
    pbar, pbar_it,   \* the tqdm bar and its iterator's private counters
    train_ret,       \* what train_one_epoch returned
    val_ret,         \* what validate returned
    best_val_loss,
    sched_G, sched_D,
    csv_file,        \* metrics.csv, line by line
    ckpt,            \* the checkpoint files
    ckpt_log,        \* history: the checkpoint writes, in order
    val_history,     \* history: the validation loss of every epoch validated
    scored,          \* history: the fake mask the discriminator last scored
    nan_seen,        \* history: the loss computation that produced a NaN
    pass_inputs,     \* history: the losses and metrics of each batch of the pass
    val_weights,     \* history: the weights every validation pass ran on
    error            \* the exception that ended the run

vars == << pc, epoch, batch, mode, weights, grads, fake_mask, g_loss,
           total_g_loss, total_d_loss, total_val_loss, metrics, logs,
           pbar, pbar_it, train_ret, val_ret, best_val_loss, sched_G, sched_D,
           csv_file, ckpt, ckpt_log, val_history, scored, nan_seen,
           pass_inputs, val_weights, error >>

NoLogs == [k \in MetricKeys \cup {"val_loss"} |-> Fin(0)]
NoTrainRet == [g |-> Fin(0), d |-> Fin(0), log |-> ZeroMetrics]
NoValRet == [loss |-> Fin(0), logs |-> NoLogs]

\* after GANTrainer.__init__: _setup_training and _setup_logging have run
Init ==
    /\ pc = "for_epoch"
    /\ epoch = 0
    /\ batch = 0
    /\ mode = "train"
    /\ weights = [p \in ParamGroups |-> 0]
    /\ grads = [p \in ParamGroups |-> <<>>]
    /\ fake_mask = NoTensor
    /\ g_loss = Fin(0)
    /\ total_g_loss = Fin(0)
    /\ total_d_loss = Fin(0)
    /\ total_val_loss = Fin(0)
    /\ metrics = ZeroMetrics
    /\ logs = NoLogs
    /\ pbar = NewBar
    /\ pbar_it = NewBar
    /\ train_ret = NoTrainRet
    /\ val_ret = NoValRet
    /\ best_val_loss = Inf
    /\ sched_G = [last_epoch |-> 0, decays |-> 0]
    /\ sched_D = [last_epoch |-> 0, decays |-> 0]
    /\ csv_file = << csv_fields >>
    /\ ckpt = [f \in {"last_model", "best_gan_model"} |-> NoFile]
    /\ ckpt_log = <<>>
    /\ val_history = <<>>
    /\ scored = NoTensor
    /\ nan_seen = "none"
    /\ pass_inputs = <<>>
    /\ val_weights = <<>>
    /\ error = "none"

\* raise ValueError(msg): train() is left, nothing else runs
Raise(msg) ==
    /\ pc' = "aborted"
    /\ error' = msg

\* ------------------------------------------------------------ train_one_epoch
\* for epoch in range(num_epochs): train_one_epoch() up to the batch loop
TrainOneEpochBegin ==
    /\ pc = "for_epoch"
    /\ epoch < NumEpochs
    /\ pc' = "train_generator"
    /\ mode' = "train"
    /\ batch' = 0
    /\ total_g_loss' = Fin(0)
    /\ total_d_loss' = Fin(0)
    /\ metrics' = ZeroMetrics
    /\ pbar' = NewBar
    /\ pbar_it' = NewBar
    /\ pass_inputs' = <<>>
    /\ UNCHANGED << epoch, weights, grads, fake_mask, g_loss, total_val_loss,
                    logs, train_ret, val_ret, best_val_loss, sched_G, sched_D,
                    csv_file, ckpt, ckpt_log, val_history, scored, nan_seen,
                    error,
                    val_weights >>

\* g_loss, fake_mask = self.train_generator(data, targets), and the NaN check
\* of the returned loss
TrainGeneratorStep ==
    /\ pc = "train_generator"
    /\ \E loss \in LossValues :
        LET r == Train_generator(epoch + 1, batch + 1, loss, weights, grads)
        IN  /\ weights' = r.w
            /\ grads' = r.grads
            /\ nan_seen' = IF loss.kind = "nan" THEN "g_seg_loss" ELSE nan_seen
            /\ IF r.raised
               THEN /\ Raise("NaN in g_seg_loss")
                    /\ UNCHANGED << g_loss, fake_mask >>
               ELSE /\ g_loss' = r.loss
                    /\ fake_mask' = r.fake_masks
                    /\ IF check_loss_nan(r.loss)
                       THEN Raise("NaN in generator loss")
                       ELSE pc' = "train_discriminator" /\ UNCHANGED error
    /\ UNCHANGED << epoch, batch, mode, total_g_loss, total_d_loss,
                    total_val_loss, metrics, logs, pbar, pbar_it, train_ret,
                    val_ret, best_val_loss, sched_G, sched_D, csv_file, ckpt,
                    ckpt_log, val_history, scored,
                    pass_inputs, val_weights >>

\* d_loss = self.train_discriminator(data, fake_mask, targets), its NaN check,
\* the metric accumulation, pbar.update(1), logs and the two running totals;
\* then the for loop asks the bar for the next batch
TrainDiscriminatorStep ==
    /\ pc = "train_discriminator"
    /\ \E d_real \in LossValues, d_fake \in LossValues, metric \in MetricValues,
          redraw1 \in BOOLEAN, due \in BOOLEAN, redraw2 \in BOOLEAN :
        LET r == Train_discriminator(fake_mask, d_real, d_fake, weights, grads)
            acc == Accumulate(metrics, metric)
            bar1 == Tqdm_update(pbar, 1, redraw1)
            nxt == Tqdm_iter(bar1, pbar_it, due, redraw2)
        IN  /\ weights' = r.w
            /\ grads' = r.grads
            /\ scored' = r.scored
            /\ nan_seen' = IF d_real.kind = "nan" THEN "d_real_loss"
                           ELSE IF d_fake.kind = "nan" THEN "d_fake_loss"
                           ELSE nan_seen
            /\ IF r.raised
               THEN /\ Raise(IF check_loss_nan(d_real) THEN "NaN in d_real_loss"
                             ELSE "NaN in d_fake_loss")
                    /\ UNCHANGED << batch, metrics, logs, pbar, pbar_it,
                                    total_g_loss, total_d_loss, pass_inputs >>
               ELSE IF check_loss_nan(r.loss)
               THEN /\ Raise("NaN in discriminator loss")
                    /\ UNCHANGED << batch, metrics, logs, pbar, pbar_it,
                                    total_g_loss, total_d_loss, pass_inputs >>
               ELSE /\ metrics' = acc
                    /\ pass_inputs' = Append(pass_inputs,
                          [g |-> g_loss, d |-> r.loss, metric |-> metric])
                    /\ logs' = [k \in DOMAIN logs |->
                                  IF k \in MetricKeys THEN Averages(acc, bar1.n)[k]
                                  ELSE logs[k]]
                    /\ total_d_loss' = FAdd(total_d_loss, r.loss)
                    /\ total_g_loss' = FAdd(total_g_loss, g_loss)
                    /\ pbar' = nxt.bar
                    /\ pbar_it' = nxt.it
                    /\ batch' = batch + 1
                    /\ pc' = IF batch + 1 = NumTrainBatches
                             THEN "train_return" ELSE "train_generator"
                    /\ UNCHANGED error
    /\ UNCHANGED << epoch, mode, fake_mask, g_loss, total_val_loss, train_ret,
                    val_ret, best_val_loss, sched_G, sched_D, csv_file, ckpt,
                    ckpt_log, val_history,
                    val_weights >>

\* avg_g_loss, avg_d_loss and the return of train_one_epoch; its locals
\* (the totals, the metric sums, logs, the bar, the last batch's tensors) end
TrainOneEpochReturn ==
    /\ pc = "train_return"
    /\ train_ret' = [g |-> FDiv(total_g_loss, NumTrainBatches),
                     d |-> FDiv(total_d_loss, NumTrainBatches),
                     log |-> [k \in MetricKeys |-> logs[k]]]
    /\ pc' = "validate"
    /\ batch' = 0
    /\ fake_mask' = NoTensor
    /\ g_loss' = Fin(0)
    /\ total_g_loss' = Fin(0)
    /\ total_d_loss' = Fin(0)
    /\ metrics' = ZeroMetrics
    /\ logs' = NoLogs
    /\ pbar' = NewBar
    /\ pbar_it' = NewBar
    /\ pass_inputs' = <<>>
    /\ UNCHANGED << epoch, mode, weights, grads, total_val_loss, val_ret,
                    best_val_loss, sched_G, sched_D, csv_file, ckpt, ckpt_log,
                    val_history, scored, nan_seen, error,
                    val_weights >>

\* ------------------------------------------------------------ validate
\* validate() up to the batch loop
ValidateBegin ==
    /\ pc = "validate"
    /\ mode' = "eval"
    /\ batch' = 0
    /\ total_val_loss' = Fin(0)
    /\ metrics' = ZeroMetrics
    /\ pbar' = NewBar
    /\ pc' = "val_batch"
    /\ pass_inputs' = <<>>
    /\ UNCHANGED << epoch, weights, grads, fake_mask, g_loss, total_g_loss,
                    total_d_loss, logs, pbar_it, train_ret, val_ret,
                    best_val_loss, sched_G, sched_D, csv_file, ckpt, ckpt_log,
                    val_history, scored, nan_seen, error,
                    val_weights >>

\* one batch of the validation loop; the bar is not iterated here, so only
\* pbar.update(1) moves it
ValidateBatch ==
    /\ pc = "val_batch"
    /\ \E loss \in ValLossValues, metric \in MetricValues, redraw \in BOOLEAN :
        LET r == Validate_batch(loss, weights, grads)
            acc == Accumulate(metrics, metric)
            bar1 == Tqdm_update(pbar, 1, redraw)
        IN  /\ weights' = r.w
            /\ grads' = r.grads
            /\ nan_seen' = IF loss.kind = "nan" THEN "val_loss" ELSE nan_seen
            /\ IF r.raised
               THEN /\ Raise("NaN in val_loss")
                    /\ UNCHANGED << batch, total_val_loss, metrics, logs, pbar,
                                    pass_inputs >>
               ELSE /\ total_val_loss' = FAdd(total_val_loss, r.loss)
                    /\ pass_inputs' = Append(pass_inputs,
                          [g |-> r.loss, d |-> Fin(0), metric |-> metric])
                    /\ metrics' = acc
                    /\ pbar' = bar1
                    /\ logs' = [k \in DOMAIN logs |->
                                  IF k = "val_loss" THEN FDiv(r.loss, bar1.n)
                                  ELSE Averages(acc, bar1.n)[k]]
                    /\ batch' = batch + 1
                    /\ pc' = IF batch + 1 = NumValBatches
                             THEN "val_return" ELSE "val_batch"
                    /\ UNCHANGED error
    /\ UNCHANGED << epoch, mode, fake_mask, g_loss, total_g_loss, total_d_loss,
                    pbar_it, train_ret, val_ret, best_val_loss, sched_G,
                    sched_D, csv_file, ckpt, ckpt_log, val_history, scored,
                    val_weights >>

\* avg_val_loss, the final logs and the return of validate; its locals end
ValidateReturn ==
    /\ pc = "val_return"
    /\ LET avg_val_loss == FDiv(total_val_loss, NumValBatches)
           final == [k \in DOMAIN logs |->
                       IF k = "val_loss" THEN avg_val_loss
                       ELSE Averages(metrics, NumValBatches)[k]]
       IN  /\ val_ret' = [loss |-> avg_val_loss, logs |-> final]
           /\ val_history' = Append(val_history, avg_val_loss)
    /\ pc' = "log_to_csv"
    /\ batch' = 0
    /\ total_val_loss' = Fin(0)
    /\ metrics' = ZeroMetrics
    /\ logs' = NoLogs
    /\ pbar' = NewBar
    /\ pass_inputs' = <<>>
    /\ val_weights' = Append(val_weights, weights)
    /\ UNCHANGED << epoch, mode, weights, grads, fake_mask, g_loss,
                    total_g_loss, total_d_loss, pbar_it, train_ret,
                    best_val_loss, sched_G, sched_D, csv_file, ckpt, ckpt_log,
                    scored, nan_seen, error >>

\* ------------------------------------------------------------ end of an epoch
\* the log message and self._log_to_csv(epoch + 1, ...)
LogToCsv ==
    /\ pc = "log_to_csv"
    /\ csv_file' = Log_to_csv(csv_file, epoch + 1, train_ret.g, train_ret.d,
                              val_ret.loss, val_ret.logs, train_ret.log)
    /\ pc' = "save_model"
    /\ UNCHANGED << epoch, batch, mode, weights, grads, fake_mask, g_loss,
                    total_g_loss, total_d_loss, total_val_loss, metrics, logs,
                    pbar, pbar_it, train_ret, val_ret, best_val_loss, sched_G,
                    sched_D, ckpt, ckpt_log, val_history, scored, nan_seen,
                    error,
                    pass_inputs, val_weights >>

\* is_best, the update of best_val_loss and self.save_model(is_best=is_best)
SaveModel ==
    /\ pc = "save_model"
    /\ LET is_best == IsBest(val_ret.loss, best_val_loss)
           r == Save_model(ckpt, ckpt_log, epoch + 1, weights, is_best)
       IN  /\ best_val_loss' = IF is_best THEN val_ret.loss ELSE best_val_loss
           /\ ckpt' = r.files
           /\ ckpt_log' = r.log
    /\ pc' = "scheduler_step"
    /\ UNCHANGED << epoch, batch, mode, weights, grads, fake_mask, g_loss,
                    total_g_loss, total_d_loss, total_val_loss, metrics, logs,
                    pbar, pbar_it, train_ret, val_ret, sched_G, sched_D,
                    csv_file, val_history, scored, nan_seen, error,
                    pass_inputs, val_weights >>

\* self.scheduler_G.step(); self.scheduler_D.step(); the epoch is complete
SchedulerStep ==
    /\ pc = "scheduler_step"
    /\ sched_G' = StepLR_step(sched_G)
    /\ sched_D' = StepLR_step(sched_D)
    /\ epoch' = epoch + 1
    /\ pc' = "for_epoch"
    /\ UNCHANGED << batch, mode, weights, grads, fake_mask, g_loss,
                    total_g_loss, total_d_loss, total_val_loss, metrics, logs,
                    pbar, pbar_it, train_ret, val_ret, best_val_loss, csv_file,
                    ckpt, ckpt_log, val_history, scored, nan_seen, error,
                    pass_inputs, val_weights >>

\* range(num_epochs) is exhausted: train() returns
TrainReturn ==
    /\ pc = "for_epoch"
    /\ epoch = NumEpochs
    /\ pc' = "done"
    /\ UNCHANGED << epoch, batch, mode, weights, grads, fake_mask, g_loss,
                    total_g_loss, total_d_loss, total_val_loss, metrics, logs,
                    pbar, pbar_it, train_ret, val_ret, best_val_loss, sched_G,
                    sched_D, csv_file, ckpt, ckpt_log, val_history, scored,
                    nan_seen, error,
                    pass_inputs, val_weights >>

Next ==
    \/ TrainOneEpochBegin
    \/ TrainGeneratorStep
    \/ TrainDiscriminatorStep
    \/ TrainOneEpochReturn
    \/ ValidateBegin
    \/ ValidateBatch
    \/ ValidateReturn
    \/ LogToCsv
    \/ SaveModel
    \/ SchedulerStep
    \/ TrainReturn

Spec == Init /\ [][Next]_vars


\* ------------------------------------------------------------ properties
\* epochs whose save_model call has returned
SavedEpochs == IF pc = "scheduler_step" THEN epoch + 1 ELSE epoch

\* epochs whose _log_to_csv call has returned
LoggedEpochs == IF pc \in {"save_model", "scheduler_step"} THEN epoch + 1 ELSE epoch

BestWrittenIn(e) ==
    \E i \in DOMAIN ckpt_log : ckpt_log[i] = [file |-> "best_gan_model", epoch |-> e]

LessThanAllPrevious(e) ==
    \A j \in 1..(e - 1) : FLess(val_history[e], val_history[j])

\* C1 as stated: in every epoch, best_gan_model is written in that epoch if
\* and only if the epoch's validation loss is strictly less than the
\* validation loss of every previous epoch of the run.
C1_BestIffLessThanAllPrevious ==
    \A e \in 1..SavedEpochs : BestWrittenIn(e) <=> LessThanAllPrevious(e)

\* C1 amended: in every epoch, best_gan_model is written in that epoch if and
\* only if the epoch's validation loss is strictly less than +infinity (the
\* initial best_val_loss) and strictly less than the validation loss of every
\* previous epoch of the run.
C1_BestIffLessThanInfAndAllPrevious ==
    \A e \in 1..SavedEpochs :
        BestWrittenIn(e) <=> (FLess(val_history[e], Inf) /\ LessThanAllPrevious(e))

\* the second epoch improved on the first, and both wrote best_gan_model
C1_Witness ==
    /\ SavedEpochs >= 2
    /\ BestWrittenIn(1)
    /\ BestWrittenIn(2)
    /\ FLess(val_history[2], val_history[1])


IsLastModelWrite(x) == x.file = "last_model"

LastModelWrites == SelectSeq(ckpt_log, IsLastModelWrite)

\* C2: last_model is written exactly once in every completed epoch, whatever
\* the validation loss and whether or not best_gan_model is written; after N
\* epochs it has been written N times and holds the weights as of the end of
\* epoch N (every batch of the N epochs applied to both networks).
C2_LastModelEveryEpoch ==
    /\ Len(LastModelWrites) = SavedEpochs
    /\ \A i \in 1..SavedEpochs : LastModelWrites[i].epoch = i
    /\ ckpt["last_model"] =
          IF SavedEpochs = 0 THEN NoFile
          ELSE [p \in ParamGroups |-> SavedEpochs * NumTrainBatches]
    /\ pc \in {"scheduler_step", "for_epoch", "done"} /\ SavedEpochs > 0
          => ckpt["last_model"] = weights

\* two epochs completed, the second one not a best epoch
C2_Witness ==
    /\ pc = "for_epoch"
    /\ epoch = 2
    /\ Len(LastModelWrites) = 2
    /\ BestWrittenIn(1)
    /\ ~BestWrittenIn(2)

IsPrefix(s, t) ==
    /\ Len(s) <= Len(t)
    /\ \A i \in 1..Len(s) : s[i] = t[i]

CsvShape ==
    /\ Len(csv_file) = LoggedEpochs + 1
    /\ csv_file[1] = csv_fields
    /\ \A i \in 2..Len(csv_file) : csv_file[i][1] = Fin(i - 1)

\* C3: after N completed epochs metrics.csv has exactly N+1 lines, the header
\* written at set-up followed by one row per epoch in epoch order with epoch
\* field 1..N, and no line already in the file is ever modified or removed.
C3_CsvAppendOnly ==
    CsvShape /\ [][CsvShape' /\ IsPrefix(csv_file, csv_file')]_vars

\* train() returned after all its epochs: the header and one row per epoch
C3_Witness ==
    /\ pc = "done"
    /\ epoch = NumEpochs
    /\ Len(csv_file) = NumEpochs + 1

TrainingLosses == {"g_seg_loss", "d_real_loss", "d_fake_loss"}

\* C4: when the loss computed inside train_generator, or the real or the fake
\* loss computed inside train_discriminator, is NaN, the step raises and
\* neither optimizer is stepped by it: generator and discriminator weights are
\* what they were when the step began.
C4_NanStepUpdatesNothing ==
    [][ (pc \in {"train_generator", "train_discriminator"}
            /\ nan_seen' \in TrainingLosses)
        => /\ pc' = "aborted"
           /\ error' \in {"NaN in g_seg_loss", "NaN in d_real_loss",
                          "NaN in d_fake_loss"}
           /\ weights' = weights ]_vars

\* a generator step met a NaN after earlier batches had updated both networks
C4_Witness ==
    /\ pc = "aborted"
    /\ nan_seen = "g_seg_loss"
    /\ error = "NaN in g_seg_loss"
    /\ weights["generator"] >= 1
    /\ weights["discriminator"] >= 1

\* C5: a NaN in any of the four loss computations ends the run at once: the
\* detecting step appends no CSV row, writes no checkpoint, steps no scheduler
\* and leaves best_val_loss alone, and afterwards nothing runs at all (no
\* batch, no epoch, no retry).
C5_NanAbortsRun ==
    [][ /\ nan_seen' # "none"
            => /\ pc' = "aborted"
               /\ UNCHANGED << csv_file, ckpt, ckpt_log, sched_G, sched_D,
                               best_val_loss, epoch >>
        /\ pc = "aborted" => UNCHANGED vars ]_vars

\* the validation pass of the second epoch met a NaN
C5_Witness ==
    /\ pc = "aborted"
    /\ nan_seen = "val_loss"
    /\ epoch = 1
    /\ Len(csv_file) = 2

\* C6: a discriminator step never changes the generator: its weights and its
\* accumulated gradients are the same after the step as before; only the
\* discriminator's weights are updated (once, when the step does not raise).
C6_DiscriminatorStepLeavesGenerator ==
    [][ pc = "train_discriminator"
        => /\ weights'["generator"] = weights["generator"]
           /\ grads'["generator"] = grads["generator"]
           /\ weights'["discriminator"] =
                 IF pc' = "aborted" THEN weights["discriminator"]
                 ELSE weights["discriminator"] + 1 ]_vars

\* a discriminator step has run on a fake mask and updated the discriminator
C6_Witness ==
    /\ pc = "train_generator"
    /\ batch = 1
    /\ scored.graph = {}
    /\ grads["generator"] = << "g_seg_loss" >>
    /\ grads["discriminator"] = << "d_loss" >>
    /\ weights["discriminator"] = 1

\* C7: both schedulers are stepped once per completed epoch and nowhere else:
\* after k completed epochs each has counted k epochs and applied exactly
\* floor(k / lr_decay_step) decays (lr = initial_lr * gamma^floor(k/step)),
\* and the two decay counts are always equal.
C7_StepDecay ==
    /\ sched_G.last_epoch = epoch
    /\ sched_D.last_epoch = epoch
    /\ sched_G.decays = epoch \div LrDecayStep
    /\ sched_D.decays = epoch \div LrDecayStep
    /\ sched_G.decays = sched_D.decays

\* enough epochs have completed for a decay to have been applied
C7_Witness ==
    /\ epoch = LrDecayStep
    /\ sched_G.decays = 1
    /\ sched_D.decays = 1


Phases == {"train", "val"}

\* what a column of metrics.csv reports, read off its name and the value
\* _log_to_csv stores under it: val_loss is the generator's loss on the
\* validation set, an unprefixed metric is the validation metric
ColumnQuantity(c) ==
    CASE c = "epoch" -> << "run", "epoch" >>
      [] c = "train_g_loss" -> << "train", "g_loss" >>
      [] c = "train_d_loss" -> << "train", "d_loss" >>
      [] c = "val_loss" -> << "val", "g_loss" >>
      [] c = "train_mean_iou" -> << "train", "mean_iou" >>
      [] c = "train_recall" -> << "train", "recall" >>
      [] c = "train_precision" -> << "train", "precision" >>
      [] c = "train_accuracy" -> << "train", "accuracy" >>
      [] c = "train_dice" -> << "train", "dice" >>
      [] c = "train_f2" -> << "train", "f2" >>
      [] c \in MetricKeys -> << "val", c >>
      [] OTHER -> << "run", c >>

\* the value of a quantity for the epoch train() has just trained and validated
QuantityValue(q) ==
    CASE q = << "run", "epoch" >> -> Fin(epoch + 1)
      [] q = << "train", "g_loss" >> -> train_ret.g
      [] q = << "train", "d_loss" >> -> train_ret.d
      [] q = << "val", "g_loss" >> -> val_ret.loss
      [] q[1] = "train" /\ q[2] \in MetricKeys -> train_ret.log[q[2]]
      [] q[1] = "val" /\ q[2] \in MetricKeys -> val_ret.logs[q[2]]
      [] OTHER -> Empty

HeaderQuantities == {ColumnQuantity(csv_file[1][j]) : j \in 1..Len(csv_file[1])}

RowsComplete ==
    /\ Cardinality(HeaderQuantities) = Len(csv_file[1])
    /\ \A i \in 2..Len(csv_file) :
          /\ Len(csv_file[i]) = Len(csv_file[1])
          /\ \A j \in 1..Len(csv_file[i]) : csv_file[i][j].kind # "empty"
    /\ pc = "save_model"
          => \A j \in 1..Len(csv_file[1]) :
                csv_file[Len(csv_file)][j] =
                    QuantityValue(ColumnQuantity(csv_file[1][j]))

\* C8 as stated: the header and every row carry the epoch, the generator loss
\* and the discriminator loss for both phases, and the six metrics for both
\* phases; every header column has a value in every row.
C8_ColumnsBothLossesBothPhases ==
    /\ HeaderQuantities =
          {<< "run", "epoch" >>} \cup (Phases \X {"g_loss", "d_loss"})
              \cup (Phases \X MetricKeys)
    /\ RowsComplete

\* C8 amended: the header and every row carry the epoch, the generator loss
\* and the discriminator loss of the training phase, one validation loss (the
\* generator's loss on the validation set; no validation discriminator loss),
\* and the six metrics for both phases; every header column has a value in
\* every row, the value of that quantity for the row's epoch.
C8_ColumnsOneValidationLoss ==
    /\ HeaderQuantities =
          {<< "run", "epoch" >>, << "train", "g_loss" >>, << "train", "d_loss" >>,
           << "val", "g_loss" >>} \cup (Phases \X MetricKeys)
    /\ RowsComplete

\* the row of the second epoch has just been appended
C8_Witness ==
    /\ pc = "save_model"
    /\ epoch = 1
    /\ Len(csv_file) = 3
    /\ Len(csv_file[3]) = Len(csv_fields)

\* C9: in every training batch the generator step precedes the discriminator
\* step, the discriminator step scores the fake mask that batch's generator
\* step produced, and the generator step leaves the discriminator's weights
\* unchanged.
C9_GeneratorThenDiscriminator ==
    [][ /\ pc = "train_generator"
            => /\ weights'["discriminator"] = weights["discriminator"]
               /\ weights["generator"] = weights["discriminator"]
               /\ pc' = "train_discriminator"
                     => /\ weights'["generator"] = weights["generator"] + 1
                        /\ fake_mask'.epoch = epoch + 1
                        /\ fake_mask'.batch = batch + 1
        /\ pc = "train_discriminator"
            => /\ weights["generator"] = weights["discriminator"] + 1
               /\ scored'.epoch = epoch + 1
               /\ scored'.batch = batch + 1
               /\ scored'.gen = weights["generator"] - 1 ]_vars

\* the last batch of an epoch went through both steps, in that order
C9_Witness ==
    /\ pc = "train_return"
    /\ batch = NumTrainBatches
    /\ scored.batch = NumTrainBatches
    /\ weights["generator"] = weights["discriminator"]
    /\ weights["generator"] >= NumTrainBatches

\* C10: in every epoch all training batches are processed before the first
\* validation batch, and the validation pass updates nothing: the weights, the
\* gradients, both schedulers and best_val_loss are the same when validate()
\* returns as when it was called.
C10_ValidationUpdatesNothing ==
    [][ /\ pc \in {"validate", "val_batch", "val_return"}
            => UNCHANGED << weights, grads, sched_G, sched_D, best_val_loss,
                            ckpt, epoch >>
        /\ pc' = "val_batch"
            => /\ weights'["generator"] = (epoch' + 1) * NumTrainBatches
               /\ weights'["discriminator"] = (epoch' + 1) * NumTrainBatches ]_vars

\* the validation pass of the second epoch has processed all its batches
C10_Witness ==
    /\ pc = "val_return"
    /\ epoch = 1
    /\ batch = NumValBatches
    /\ mode = "eval"


\* the validation losses of the epochs whose model selection has run
CompletedValLosses == {val_history[j] : j \in 1..SavedEpochs}

\* m is the minimum of +infinity and the losses in S
IsMinWithInf(m, S) ==
    /\ m \in S \cup {Inf}
    /\ \A x \in S \cup {Inf} : ~FLess(x, m)

\* C11: best_val_loss starts at +infinity, never increases, after every
\* completed epoch equals the minimum of +infinity and the validation losses
\* of the epochs completed so far, and changes only in an epoch whose
\* validation loss is strictly lower than its current value (to that loss).
C11_BestValLossIsRunningMin ==
    /\ best_val_loss = Inf
    /\ [][ /\ IsMinWithInf(best_val_loss, CompletedValLosses)'
           /\ ~FLess(best_val_loss, best_val_loss')
           /\ best_val_loss' # best_val_loss
                 => /\ pc = "save_model"
                    /\ FLess(val_ret.loss, best_val_loss)
                    /\ best_val_loss' = val_ret.loss ]_vars

\* the second epoch lowered a finite best_val_loss
C11_Witness ==
    /\ pc = "scheduler_step"
    /\ epoch = 1
    /\ best_val_loss = val_history[2]
    /\ FLess(val_history[2], val_history[1])
    /\ FLess(val_history[1], Inf)


\* a = b as numbers
FEq(a, b) ==
    /\ a.kind = b.kind
    /\ a.kind = "finite" => a.num * b.den = b.num * a.den

RECURSIVE FSum(_)
\* the sum of a sequence of floats
FSum(fs) ==
    IF fs = <<>> THEN Fin(0)
    ELSE FAdd(FSum(SubSeq(fs, 1, Len(fs) - 1)), fs[Len(fs)])

\* the arithmetic mean of a non-empty sequence of floats
FMean(fs) == FDiv(FSum(fs), Len(fs))

BatchGLosses == [i \in 1..Len(pass_inputs) |-> pass_inputs[i].g]
BatchDLosses == [i \in 1..Len(pass_inputs) |-> pass_inputs[i].d]
BatchMetric(k) == [i \in 1..Len(pass_inputs) |-> pass_inputs[i].metric[k]]

\* train_one_epoch returns the mean of the batch losses of its pass
TrainLossesAreMeans ==
    pc = "train_return"
        => /\ Len(pass_inputs) = NumTrainBatches
           /\ FEq(train_ret'.g, FMean(BatchGLosses))
           /\ FEq(train_ret'.d, FMean(BatchDLosses))

\* train_one_epoch returns the mean of the batch values of every metric
TrainMetricsAreMeans ==
    pc = "train_return"
        => \A k \in MetricKeys : FEq(train_ret'.log[k], FMean(BatchMetric(k)))

\* validate returns the mean of the batch losses and of every metric
ValAggregatesAreMeans ==
    pc = "val_return"
        => /\ Len(pass_inputs) = NumValBatches
           /\ FEq(val_ret'.loss, FMean(BatchGLosses))
           /\ FEq(val_ret'.logs["val_loss"], FMean(BatchGLosses))
           /\ \A k \in MetricKeys : FEq(val_ret'.logs[k], FMean(BatchMetric(k)))

\* every pass begins with its accumulators at zero
AccumulatorsStartAtZero ==
    /\ pc = "for_epoch" /\ pc' = "train_generator"
          => total_g_loss' = Fin(0) /\ total_d_loss' = Fin(0) /\ metrics' = ZeroMetrics
    /\ pc = "validate"
          => total_val_loss' = Fin(0) /\ metrics' = ZeroMetrics

\* C12: what train_one_epoch and validate return are arithmetic means over
\* the batches of the pass: each loss is the sum of the batch losses divided
\* by the number of batches, each of the six metrics the sum of the batch
\* values divided by the number of batches, the accumulators starting at zero
\* in every pass.
C12_AggregatesAreMeans ==
    [][ /\ TrainLossesAreMeans
        /\ TrainMetricsAreMeans
        /\ ValAggregatesAreMeans
        /\ AccumulatorsStartAtZero ]_vars


\* epoch e attained the minimum validation loss of the epochs run so far
AttainsMin(e) == \A j \in 1..epoch : ~FLess(val_history[j], val_history[e])

EarliestMinEpoch ==
    CHOOSE e \in 1..epoch : AttainsMin(e) /\ \A j \in 1..(e - 1) : ~AttainsMin(j)

\* the weights once every batch of the first e epochs has been applied
EndOfEpochWeights(e) == [p \in ParamGroups |-> e * NumTrainBatches]

\* best_gan_model exists and holds the weights of the earliest epoch with
\* the minimum validation loss, the weights that loss was computed on
BestHoldsEarliestMin ==
    /\ ckpt["best_gan_model"] # NoFile
    /\ ckpt["best_gan_model"] = EndOfEpochWeights(EarliestMinEpoch)
    /\ ckpt["best_gan_model"] = val_weights[EarliestMinEpoch]

\* in an epoch last_model is written first, so best_gan_model is never newer
LastWrittenBeforeBest ==
    /\ \A i \in DOMAIN ckpt_log :
          ckpt_log[i].file = "best_gan_model"
              => /\ i > 1
                 /\ ckpt_log[i - 1] = [file |-> "last_model", epoch |-> ckpt_log[i].epoch]
    /\ ckpt["best_gan_model"] # NoFile
          => \A p \in ParamGroups :
                ckpt["best_gan_model"][p] <= ckpt["last_model"][p]

\* C13 as stated: whenever train() finishes N >= 1 epochs without aborting,
\* best_gan_model exists and holds the weights as of the end of the earliest
\* epoch that attained the run's minimum validation loss, the weights that
\* loss was computed on; in an epoch last_model is written before
\* best_gan_model, which is therefore never newer than last_model.
C13_BestExistsAfterTraining ==
    /\ pc = "done" => BestHoldsEarliestMin
    /\ LastWrittenBeforeBest

\* C13 amended: whenever train() finishes N >= 1 epochs without aborting and
\* some epoch's validation loss was below +infinity, best_gan_model exists and
\* holds the weights as of the end of the earliest epoch that attained the
\* run's minimum validation loss, the weights that loss was computed on; when
\* every validation loss was +infinity no best_gan_model is written.  In an
\* epoch last_model is written before best_gan_model, which is never newer.
C13_BestExistsWhenSomeLossFinite ==
    /\ pc = "done"
          => IF \E e \in 1..epoch : FLess(val_history[e], Inf)
             THEN BestHoldsEarliestMin
             ELSE ckpt["best_gan_model"] = NoFile
    /\ LastWrittenBeforeBest

\* train() finished; two epochs tied for the minimum and the first one's
\* weights are the best checkpoint, older than last_model
C13_Witness ==
    /\ pc = "done"
    /\ epoch >= 2
    /\ val_history[1] = val_history[2]
    /\ FLess(val_history[1], Inf)
    /\ EarliestMinEpoch = 1
    /\ ckpt["best_gan_model"] = val_weights[1]
    /\ ckpt["last_model"] = EndOfEpochWeights(epoch)

====
